---- MODULE Spec2Model ----
(***************************************************************************)
(* Model of the data-ingestion pipeline: main_flow (src/main.py) runs      *)
(* sync_database_schema (src/flows/schema_sync.py) and then ingest_data    *)
(* (src/flows/data_ingestion.py) against the tables declared in            *)
(* src/models/tables.py.                                                   *)
(*                                                                         *)
(* Values.  Field values are strings; surrogate ids are integers.  NaN is  *)
(* the pandas missing value of a data frame cell, None is Python's None,   *)
(* which the store keeps as SQL NULL.                                      *)
(***************************************************************************)
EXTENDS Integers, Sequences, FiniteSets, TLC

NaN == "<NaN>"
None == "<None>"

\* Bounds of the model.
MaxBatch == 2
MaxCallerId == 2
MaxInitRows == 2
MaxMainBatch == 1
MaxRuns == 2
MaxFaults == 1

\* Cell values of the input files.
OrderIdVals == {"a", NaN}
ProductIdVals == {"p", NaN}
QuantityVals == {"1", "2"}
CallerIds == 1..MaxCallerId

TableNames == {"orders", "inventories"}

\* Order / Inventory (src/models/tables.py): the data columns the model
\* keeps besides the surrogate id.  quantity stands for the non-key
\* attributes of a row.
DataColumns(t) ==
    IF t = "orders" THEN {"order_id", "product_id", "quantity"}
    ELSE {"product_id", "quantity"}

\* Python's str() on a cell value.
str(v) == IF v = NaN THEN "nan" ELSE IF v = None THEN "None" ELSE v

\* pandas.isna on a cell value.
isna(v) == v \in {NaN, None}

\* Series.astype(str) on one cell.
astype_str(v) == str(v)

(***************************************************************************)
(* Records.  A record is a function from field names to values.  A data    *)
(* frame is a sequence of records over the same columns.                   *)
(***************************************************************************)
Without(r, k) == [f \in DOMAIN r \ {k} |-> r[f]]

\* {key: (None if pd.isna(value) else value) for key, value in row.items()}
\* (an 'id' cell is an integer in this model)
to_dict_normalized(row) ==
    [k \in DOMAIN row |->
        IF k = "id" THEN row[k] ELSE IF isna(row[k]) THEN None ELSE row[k]]

\* {'id': existing_id, **data}: a key of data overrides the literal 'id'.
with_id_first(existing_id, data) ==
    [k \in DOMAIN data \cup {"id"} |->
        IF k \in DOMAIN data THEN data[k] ELSE existing_id]

order_key(order_data) ==
    <<str(order_data["order_id"]), str(order_data["product_id"])>>

inventory_key(inventory_data) == str(inventory_data["product_id"])

RECURSIVE prepare_orders_loop(_, _, _, _)
prepare_orders_loop(df, existing_orders, i, acc) ==
    IF i > Len(df) THEN acc
    ELSE LET order_data == to_dict_normalized(df[i])
             k == order_key(order_data)
         IN prepare_orders_loop(df, existing_orders, i + 1,
                IF k \in DOMAIN existing_orders
                THEN [acc EXCEPT !.updates =
                        Append(@, with_id_first(existing_orders[k]["id"], order_data))]
                ELSE [acc EXCEPT !.inserts = Append(@, order_data)])

prepare_orders_for_upsert(df, existing_orders) ==
    prepare_orders_loop(df, existing_orders, 1, [updates |-> <<>>, inserts |-> <<>>])

RECURSIVE prepare_inventories_loop(_, _, _, _)
prepare_inventories_loop(df, existing_inventories, i, acc) ==
    IF i > Len(df) THEN acc
    ELSE LET inventory_data == to_dict_normalized(df[i])
             k == inventory_key(inventory_data)
         IN prepare_inventories_loop(df, existing_inventories, i + 1,
                IF k \in DOMAIN existing_inventories
                THEN [acc EXCEPT !.updates =
                        Append(@, with_id_first(existing_inventories[k]["id"], inventory_data))]
                ELSE [acc EXCEPT !.inserts = Append(@, inventory_data)])

prepare_inventories_for_upsert(df, existing_inventories) ==
    prepare_inventories_loop(df, existing_inventories, 1,
                             [updates |-> <<>>, inserts |-> <<>>])

\* Variant of prepare_for_upsert: both lists come out in reverse order.
prepare_for_upsert_reversed(t, df, existing) ==
    LET r == IF t = "orders" THEN prepare_orders_for_upsert(df, existing)
             ELSE prepare_inventories_for_upsert(df, existing)
        rev(s) == [n \in 1..Len(s) |-> s[Len(s) + 1 - n]]
    IN [updates |-> rev(r.updates), inserts |-> rev(r.inserts)]

prepare_for_upsert(t, df, existing) ==
    IF t = "orders" THEN prepare_orders_for_upsert(df, existing)
    ELSE prepare_inventories_for_upsert(df, existing)

(***************************************************************************)
(* State.                                                                  *)
(***************************************************************************)
VARIABLES
    files,              \* the input files at the fixed paths, by table
    tables,             \* committed rows of each table: surrogate id -> row
    seq,                \* next value of each table's id sequence
    db_present,         \* the target database exists
    live_columns,       \* live column names of each table ({}: no table)
    live_pk,            \* live primary-key columns of each table
    reflects_pk,        \* reflected column dicts carry a 'primary_key' entry
    here,               \* the (url, name) of the database the five above describe
    elsewhere,          \* the databases at the other (url, name) pairs
    faults,             \* failures the environment may still inject
    runs,               \* flows run so far
    attempts,           \* executions of each task call in the running flow
    held,               \* engines, connections and sessions not yet released
    mainPc, mainResult, \* main_flow
    main_args,          \* its database_url and db_name
    syncPc, syncResult, \* sync_database_schema
    sync_args,          \* its database_url and db_name
    db_exists,          \* its local db_exists
    table_idx,          \* position in Base.__subclasses__()
    existing_columns,   \* result of get_existing_columns
    conn,               \* the connection of sync_table_columns
    sync_log,           \* what the sync run did, in order
    ingPc, ingResult,   \* ingest_data
    ingest_args,        \* its database_url and db_name
    df,                 \* the data frame read last
    existing,           \* existing_orders / existing_inventories
    updates, inserts,   \* the partitioner's lists
    session,            \* the Session of the running upsert
    pre,                \* table, lists and sequence when the upsert began
    run_log             \* outcome and tables at the end of each ingestion run

storeVars == <<tables, seq>>
schemaVars == <<db_present, live_columns, live_pk, reflects_pk>>
targetVars == <<here, elsewhere, main_args, sync_args, ingest_args>>
mainVars == <<mainPc, mainResult>>
syncVars == <<syncPc, syncResult, db_exists, table_idx, existing_columns, conn, sync_log>>
ingVars == <<ingPc, ingResult, df, existing, updates, inserts, session, pre, run_log>>
vars == <<files, storeVars, schemaVars, targetVars, faults, runs, attempts, held,
          mainVars, syncVars, ingVars>>

(***************************************************************************)
(* Tasks.  A Prefect task that raises is run again while it has retries    *)
(* left (the retries argument of its decorator, 0 when absent); a task     *)
(* whose cache_key_fn is no_cache_key has no cache key and runs whenever   *)
(* it is called.  get_existing_orders / get_existing_inventories are plain *)
(* functions.                                                              *)
(***************************************************************************)
\* Variant of retries: every task is given one retry.
retries_everywhere(task) == 1

retries(task) ==
    CASE task = "create_engine_task" -> 3
      [] task = "check_database_exists" -> 2
      [] task = "read_orders_csv" -> 2
      [] task = "read_inventories_csv" -> 2
      [] OTHER -> 0

\* The task calls of one flow run: task name and what tells its calls apart.
Calls ==
    ({"create_engine_task"} \X {"initial", "final"})
    \cup ({"check_database_exists", "create_database"} \X {""})
    \cup ({"sync_table_schema", "get_existing_columns", "sync_table_columns"} \X TableNames)
    \cup ({"read_orders_csv", "prepare_orders_for_upsert", "upsert_orders"} \X {"orders"})
    \cup ({"read_inventories_csv", "prepare_inventories_for_upsert", "upsert_inventories"}
            \X {"inventories"})

NoAttempts == [c \in Calls |-> 0]

\* Whether the environment fails the step at hand.
Fails == IF faults > 0 THEN BOOLEAN ELSE {FALSE}

\* One more execution of the task call begins.
Executed(call) == [attempts EXCEPT ![call] = @ + 1]

\* The n-th execution of the task call raised: Prefect runs it again.
RunsAgain(call, n) == n <= retries(call[1])

(***************************************************************************)
(* Resources: engines (create_engine ... dispose), connections (with       *)
(* engine.connect()) and sessions (with Session(engine)).                  *)
(***************************************************************************)
acquired(h, r) == h \cup {r}

\* Variant of released: the resource stays held.
released_never(h, r) == h

\* dispose(), or the end of a with block.
released(h, r) == h \ {r}

(***************************************************************************)
(* Databases.  An engine is made for database_url/db_name; the store and   *)
(* schema variables describe the database at `here`, and `elsewhere` keeps *)
(* the databases at the other pairs.                                       *)
(***************************************************************************)
\* DATABASE_URL of the environment, and the default of db_name.
EnvUrl == "DATABASE_URL"
DefaultDbName == "data_app"

Urls == {EnvUrl, "other_url"}
DbNames == {DefaultDbName, "other_db"}
Targets == Urls \X DbNames

NoArgs == <<"", "">>

Database ==
    [present |-> db_present, columns |-> live_columns, pk |-> live_pk,
     rows |-> tables, seq |-> seq]

NoDatabase ==
    [present |-> FALSE, columns |-> [t \in TableNames |-> {}],
     pk |-> [t \in TableNames |-> {}], rows |-> [t \in TableNames |-> <<>>],
     seq |-> [t \in TableNames |-> 1]]

\* The flow at hand works on the database at target from now on.
Connect(target) ==
    IF target = here
    THEN UNCHANGED <<tables, seq, db_present, live_columns, live_pk, here, elsewhere>>
    ELSE /\ here' = target
         /\ elsewhere' = [x \in Targets |->
                IF x = here THEN Database
                ELSE IF x = target THEN NoDatabase ELSE elsewhere[x]]
         /\ db_present' = elsewhere[target].present
         /\ live_columns' = elsewhere[target].columns
         /\ live_pk' = elsewhere[target].pk
         /\ tables' = elsewhere[target].rows
         /\ seq' = elsewhere[target].seq

(***************************************************************************)
(* Declared schema (src/models/tables.py).                                 *)
(***************************************************************************)
DeclaredTables == <<"orders", "inventories">>

DeclaredColumns(t) ==
    IF t = "orders"
    THEN <<"id", "order_id", "product_id", "currency", "quantity", "shipping_cost",
           "amount", "channel", "channel_group", "campaign", "date_time">>
    ELSE <<"id", "product_id", "name", "quantity", "category", "sub_category">>

Range(s) == {s[i] : i \in 1..Len(s)}

DeclaredSet(t) == Range(DeclaredColumns(t))

\* select(Order) / insert(Order) name every declared column of the table.
TableUsable(t) == db_present /\ DeclaredSet(t) \subseteq live_columns[t]

(***************************************************************************)
(* Existing-record lookup.                                                 *)
(***************************************************************************)
snapshot(id, row) == [k \in DOMAIN row \cup {"id"} |-> IF k = "id" THEN id ELSE row[k]]

\* order_product_pairs of ingest_data: keys of the raw data frame rows.
order_product_pairs(frame) ==
    [i \in 1..Len(frame) |-> <<str(frame[i]["order_id"]), str(frame[i]["product_id"])>>]

inventory_product_ids(frame) ==
    [i \in 1..Len(frame) |-> str(frame[i]["product_id"])]

\* A NULL column equals no string, so a row with a NULL key matches no pair.
row_key(t, row) ==
    IF t = "orders" THEN <<row["order_id"], row["product_id"]>> ELSE row["product_id"]

\* The dict comprehension keeps, for each natural key, the row the query
\* returned last; the query has no ORDER BY, so that is any matching row.
mappings_of(t, rows, ids) ==
    LET keys == {row_key(t, rows[i]) : i \in ids}
        picks == {m \in [keys -> ids] : \A k \in keys : row_key(t, rows[m[k]]) = k}
    IN {[k \in keys |-> snapshot(m[k], rows[m[k]])] : m \in picks}

get_existing_orders(rows, pairs) ==
    mappings_of("orders", rows,
        {i \in DOMAIN rows : \E n \in 1..Len(pairs) :
            rows[i]["order_id"] = pairs[n][1] /\ rows[i]["product_id"] = pairs[n][2]})

get_existing_inventories(rows, product_ids) ==
    mappings_of("inventories", rows,
        {i \in DOMAIN rows : \E n \in 1..Len(product_ids) :
            rows[i]["product_id"] = product_ids[n]})

get_existing(t, rows, frame) ==
    IF t = "orders" THEN get_existing_orders(rows, order_product_pairs(frame))
    ELSE get_existing_inventories(rows, inventory_product_ids(frame))

(***************************************************************************)
(* Upsert applier: upsert_orders / upsert_inventories.  One Session, the   *)
(* updates in list order, then the inserts in list order, then one commit; *)
(* any exception rolls the session back and is raised again.               *)
(***************************************************************************)
ClosedSession ==
    [state |-> "closed", table |-> "orders", rows |-> <<>>, i |-> 0, j |-> 0,
     created |-> <<>>, dirty |-> FALSE]

NoPre == [table |-> "orders", rows |-> <<>>, updates |-> <<>>, inserts |-> <<>>, seq |-> 0]

UpsertPc(t) == IF t = "orders" THEN "upsert_orders" ELSE "upsert_inventories"

AfterUpsertPc(t) == IF t = "orders" THEN "read_inventories" ELSE "dispose"

\* Variant of setattr_all: a column the payload does not name is cleared.
setattr_all_clears(row, payload) ==
    [c \in DOMAIN row |-> IF c \in DOMAIN payload THEN payload[c] ELSE None]

\* setattr(row, key, value) for every item of the payload; a key that is no
\* column of the table sets a plain attribute and reaches no row.
setattr_all(row, payload) ==
    [c \in DOMAIN row |-> IF c \in DOMAIN payload THEN payload[c] ELSE row[c]]

\* insert(Table).values(insert_data): columns not named are NULL.
new_row(t, insert_data) ==
    [c \in DataColumns(t) |-> IF c \in DOMAIN insert_data THEN insert_data[c] ELSE None]

\* Variant of session_rollback: the rows changed so far stay in the table.
session_rollback_keeps(committed, working) == working

\* session.rollback(): the table keeps its committed rows.
session_rollback(committed, working) == committed

\* Variant of session_commit: only the rows the session created are kept.
session_commit_created(committed, working) ==
    [k \in DOMAIN working \ DOMAIN committed |-> working[k]]

\* session.commit(): the working rows become the committed rows.
session_commit(committed, working) == working

\* with Session(engine) as session:
UpsertOpen(t) ==
    /\ ingPc = UpsertPc(t)
    /\ session.state # "open"
    /\ session' = [state |-> "open", table |-> t, rows |-> tables[t], i |-> 0, j |-> 0,
                   created |-> <<>>, dirty |-> FALSE]
    /\ pre' = [table |-> t, rows |-> tables[t], updates |-> updates,
               inserts |-> inserts, seq |-> seq[t]]
    /\ attempts' = Executed(<<UpsertPc(t), t>>)
    /\ held' = acquired(held, "session")
    /\ UNCHANGED <<files, storeVars, schemaVars, faults, runs, targetVars, mainVars, syncVars,
                   ingPc, ingResult, df, existing, updates, inserts, run_log>>

\* Variant of UpsertRaise: the record at hand is left out and the loop
\* goes on.
UpsertRaise_Skips(t, updates_now, seq_now) ==
    /\ session' = IF session.i < Len(updates) THEN [session EXCEPT !.i = @ + 1]
                  ELSE [session EXCEPT !.j = @ + 1]
    /\ seq' = seq_now
    /\ updates' = updates_now
    /\ UNCHANGED <<files, tables, schemaVars, runs, targetVars, attempts, held, mainVars,
                   syncVars, ingPc, ingResult, df, existing, inserts, pre, run_log>>

\* except Exception as e: session.rollback(); raise e, and the with block
\* closes the session.  The task has no retries left (it has none): the
\* flow's finally block is the next step (ingPc = "dispose").
UpsertRaise(t, updates_now, seq_now) ==
    /\ session' = [session EXCEPT !.state = "rolled_back",
                                  !.dirty = (session.rows # tables[t])]
    /\ tables' = [tables EXCEPT ![t] = session_rollback(tables[t], session.rows)]
    /\ seq' = seq_now
    /\ updates' = updates_now
    /\ held' = released(held, "session")
    /\ IF RunsAgain(<<UpsertPc(t), t>>, attempts[<<UpsertPc(t), t>>])
       THEN UNCHANGED <<ingResult, ingPc>>
       ELSE /\ ingResult' = "raised"
            /\ ingPc' = "dispose"
    /\ UNCHANGED <<files, schemaVars, runs, targetVars, attempts, mainVars, syncVars,
                   df, existing, inserts, pre, run_log>>

\* One iteration of "for update_data in updates".
UpsertUpdateStep(t) ==
    /\ ingPc = UpsertPc(t)
    /\ session.state = "open"
    /\ session.i < Len(updates)
    /\ LET n == session.i + 1
           update_data == updates[n]
       IN IF "id" \notin DOMAIN update_data
          THEN \* update_data.pop('id') raises KeyError
               UpsertRaise(t, updates, seq) /\ UNCHANGED faults
          ELSE LET row_id == update_data["id"]
                   popped == [updates EXCEPT ![n] = Without(update_data, "id")]
               IN IF row_id \notin DOMAIN session.rows
                  THEN \* scalar_one() raises NoResultFound
                       UpsertRaise(t, popped, seq) /\ UNCHANGED faults
                  ELSE /\ session' = [session EXCEPT
                              !.rows = [@ EXCEPT ![row_id] = setattr_all(@, popped[n])],
                              !.i = n]
                       /\ updates' = popped
                       /\ UNCHANGED <<files, storeVars, schemaVars, faults, runs, targetVars,
                                      attempts, held, mainVars, syncVars, ingPc, ingResult,
                                      df, existing, inserts, pre, run_log>>

\* One iteration of "for insert_data in inserts".  A record without 'id'
\* takes the next value of the sequence, which a rollback does not give back.
UpsertInsertStep(t) ==
    /\ ingPc = UpsertPc(t)
    /\ session.state = "open"
    /\ session.i = Len(updates)
    /\ session.j < Len(inserts)
    /\ LET n == session.j + 1
           insert_data == inserts[n]
           supplied == "id" \in DOMAIN insert_data
           row_id == IF supplied THEN insert_data["id"] ELSE seq[t]
           seq_now == IF supplied THEN seq ELSE [seq EXCEPT ![t] = @ + 1]
       IN IF row_id \in DOMAIN session.rows
          THEN \* IntegrityError: duplicate primary key
               UpsertRaise(t, updates, seq_now) /\ UNCHANGED faults
          ELSE /\ session' = [session EXCEPT
                      !.rows = [k \in DOMAIN @ \cup {row_id} |->
                                   IF k = row_id THEN new_row(t, insert_data) ELSE @[k]],
                      !.j = n,
                      !.created = Append(@, [id |-> row_id, generated |-> ~supplied,
                                             n |-> n])]
               /\ seq' = seq_now
               /\ UNCHANGED <<files, tables, schemaVars, faults, runs, targetVars, attempts,
                              held, mainVars, syncVars, ingPc, ingResult, df, existing,
                              updates, inserts, pre, run_log>>

\* session.commit() after both loops; the with block closes the session.
UpsertCommit(t) ==
    /\ ingPc = UpsertPc(t)
    /\ session.state = "open"
    /\ session.i = Len(updates)
    /\ session.j = Len(inserts)
    /\ tables' = [tables EXCEPT ![t] = session_commit(tables[t], session.rows)]
    /\ session' = [session EXCEPT !.state = "committed"]
    /\ ingPc' = AfterUpsertPc(t)
    /\ ingResult' = IF t = "orders" THEN ingResult ELSE "ok"
    /\ held' = released(held, "session")
    /\ UNCHANGED <<files, seq, schemaVars, faults, runs, targetVars, attempts, mainVars,
                   syncVars, df, existing, updates, inserts, pre, run_log>>

\* The store fails a statement or the commit (connection lost, constraint).
UpsertDbError(t) ==
    /\ ingPc = UpsertPc(t)
    /\ session.state = "open"
    /\ faults > 0
    /\ faults' = faults - 1
    /\ UpsertRaise(t, updates, seq)

upsert_orders ==
    \/ UpsertOpen("orders")
    \/ UpsertUpdateStep("orders")
    \/ UpsertInsertStep("orders")
    \/ UpsertCommit("orders")

upsert_inventories ==
    \/ UpsertOpen("inventories")
    \/ UpsertUpdateStep("inventories")
    \/ UpsertInsertStep("inventories")
    \/ UpsertCommit("inventories")

UpsertFault == UpsertDbError("orders") \/ UpsertDbError("inventories")

(***************************************************************************)
(* ingest_data: read -> lookup -> partition -> apply, orders first, then   *)
(* inventories; engine.dispose() in the finally block.                     *)
(***************************************************************************)
\* read_orders_csv / read_inventories_csv: product_id is cast to str.
read_orders_csv(file) ==
    [n \in 1..Len(file) |-> [file[n] EXCEPT !["product_id"] = astype_str(@)]]

read_inventories_csv(file) ==
    [n \in 1..Len(file) |-> [file[n] EXCEPT !["product_id"] = astype_str(@)]]

ReadPc(t) == IF t = "orders" THEN "read_orders" ELSE "read_inventories"
LookupPc(t) == IF t = "orders" THEN "get_existing_orders" ELSE "get_existing_inventories"
PreparePc(t) == IF t = "orders" THEN "prepare_orders" ELSE "prepare_inventories"

ReadTask(t) == IF t = "orders" THEN "read_orders_csv" ELSE "read_inventories_csv"
PrepareTask(t) ==
    IF t = "orders" THEN "prepare_orders_for_upsert" ELSE "prepare_inventories_for_upsert"

\* An exception outside the applier: the flow goes to its finally block.
IngestRaise ==
    /\ ingResult' = "raised"
    /\ ingPc' = "dispose"

\* df = read_orders_csv(path) / read_inventories_csv(path): retries=2.
ReadCsv(t) ==
    /\ ingPc = ReadPc(t)
    /\ attempts' = Executed(<<ReadTask(t), t>>)
    /\ \E fail \in Fails :
          IF fail
          THEN /\ faults' = faults - 1
               /\ IF RunsAgain(<<ReadTask(t), t>>, attempts[<<ReadTask(t), t>>] + 1)
                  THEN UNCHANGED <<ingPc, ingResult>>
                  ELSE IngestRaise
               /\ UNCHANGED df
          ELSE /\ df' = IF t = "orders" THEN read_orders_csv(files[t])
                        ELSE read_inventories_csv(files[t])
               /\ ingPc' = LookupPc(t)
               /\ UNCHANGED <<faults, ingResult>>
    /\ UNCHANGED <<files, storeVars, schemaVars, runs, targetVars, held, mainVars, syncVars,
                   existing, updates, inserts, session, pre, run_log>>

\* existing = get_existing_orders(engine, pairs) / get_existing_inventories:
\* the query runs in a with Session(engine) block.
GetExisting(t) ==
    /\ ingPc = LookupPc(t)
    /\ IF TableUsable(t)
       THEN /\ \E m \in get_existing(t, tables[t], df) : existing' = m
            /\ ingPc' = PreparePc(t)
            /\ UNCHANGED ingResult
       ELSE /\ IngestRaise
            /\ UNCHANGED existing
    /\ held' = released(acquired(held, "session"), "session")
    /\ UNCHANGED <<files, storeVars, schemaVars, faults, runs, targetVars, attempts, mainVars,
                   syncVars, df, updates, inserts, session, pre, run_log>>

\* The lookup query fails in the store.
GetExistingDbError(t) ==
    /\ ingPc = LookupPc(t)
    /\ faults > 0
    /\ faults' = faults - 1
    /\ IngestRaise
    /\ held' = released(acquired(held, "session"), "session")
    /\ UNCHANGED <<files, storeVars, schemaVars, runs, targetVars, attempts, mainVars,
                   syncVars, df, existing, updates, inserts, session, pre, run_log>>

PrepareForUpsert(t) ==
    /\ ingPc = PreparePc(t)
    /\ LET r == prepare_for_upsert(t, df, existing)
       IN /\ updates' = r.updates
          /\ inserts' = r.inserts
    /\ ingPc' = UpsertPc(t)
    /\ attempts' = Executed(<<PrepareTask(t), t>>)
    /\ UNCHANGED <<files, storeVars, schemaVars, faults, runs, targetVars, held, mainVars,
                   syncVars, ingResult, df, existing, session, pre, run_log>>

\* finally: engine.dispose(); the run's locals go away.
IngestDispose ==
    /\ ingPc = "dispose"
    /\ ingPc' = "idle"
    /\ run_log' = Append(run_log, [result |-> ingResult, tables |-> tables])
    /\ df' = <<>>
    /\ existing' = <<>>
    /\ updates' = <<>>
    /\ inserts' = <<>>
    /\ session' = ClosedSession
    /\ pre' = NoPre
    /\ held' = released(held, "engine")
    /\ UNCHANGED <<files, storeVars, schemaVars, faults, runs, targetVars, attempts, mainVars,
                   syncVars, ingResult>>

\* engine = create_engine(f"{database_url}/{db_name}"), then the try block.
IngestBegin(database_url, db_name) ==
    /\ ingest_args' = <<database_url, db_name>>
    /\ Connect(<<database_url, db_name>>)
    /\ held' = acquired(held, "engine")
    /\ attempts' = NoAttempts
    /\ ingPc' = "read_orders"

\* ingest_data called on its own, for the database at hand.
IngestStart ==
    /\ mainPc = "idle"
    /\ syncPc = "idle"
    /\ ingPc = "idle"
    /\ runs < MaxRuns
    /\ runs' = runs + 1
    /\ IngestBegin(here[1], here[2])
    /\ ingResult' = "none"
    /\ UNCHANGED <<files, reflects_pk, main_args, sync_args, faults, mainVars, syncVars,
                   df, existing, updates, inserts, session, pre, run_log>>

ingest_data ==
    \/ ReadCsv("orders")
    \/ GetExisting("orders")
    \/ PrepareForUpsert("orders")
    \/ upsert_orders
    \/ ReadCsv("inventories")
    \/ GetExisting("inventories")
    \/ PrepareForUpsert("inventories")
    \/ upsert_inventories
    \/ IngestDispose

LookupFault == GetExistingDbError("orders") \/ GetExistingDbError("inventories")

(***************************************************************************)
(* sync_database_schema: check the database, create it when absent, then   *)
(* sync every declared table; each engine is disposed in a finally block.  *)
(***************************************************************************)
Event(op, t, col, pk) == [op |-> op, table |-> t, col |-> col, pk |-> pk]

ClosedConn == [state |-> "closed"]

CurrentTable == DeclaredTables[table_idx + 1]

\* inspector.get_columns(table_name) as a dict by column name.  Whether a
\* column dict has a 'primary_key' entry depends on the dialect.
get_existing_columns(t) ==
    [c \in live_columns[t] |->
        [k \in {"name"} \cup (IF reflects_pk THEN {"primary_key"} ELSE {}) |->
            IF k = "name" THEN c ELSE c \in live_pk[t]]]

\* existing_columns[col_name].get('primary_key', False)
is_primary_key(column_info) ==
    IF "primary_key" \in DOMAIN column_info THEN column_info["primary_key"] ELSE FALSE

\* initial_engine = create_engine_task(database_url) and
\* final_engine = create_engine_task(database_url, db_name): retries=3.
\* Both calls stand before their try block: when the task has raised for
\* the last time the flow ends at once.
CreateEngine(which, resource, next_pc) ==
    /\ attempts' = Executed(<<"create_engine_task", which>>)
    /\ \E fail \in Fails :
          IF fail
          THEN /\ faults' = faults - 1
               /\ IF RunsAgain(<<"create_engine_task", which>>,
                               attempts[<<"create_engine_task", which>>] + 1)
                  THEN UNCHANGED <<syncPc, syncResult>>
                  ELSE /\ syncResult' = "raised"
                       /\ syncPc' = "idle"
               /\ UNCHANGED held
          ELSE /\ held' = acquired(held, resource)
               /\ syncPc' = next_pc
               /\ UNCHANGED <<faults, syncResult>>

CreateInitialEngine ==
    /\ syncPc = "create_initial_engine"
    /\ CreateEngine("initial", "initial_engine", "check_database_exists")
    /\ UNCHANGED <<files, storeVars, schemaVars, runs, targetVars, mainVars, ingVars,
                   db_exists, table_idx, existing_columns, conn, sync_log>>

\* Variant of after_check: the database is created in any case.
after_check_creates(exists) == "create_database"

\* if not db_exists: create_database(...); then the finally block.
after_check(exists) == IF exists THEN "dispose_initial" ELSE "create_database"

\* db_exists = check_database_exists(initial_engine, db_name): retries=2,
\* the query runs in a with engine.connect() block.
CheckDatabaseExists ==
    /\ syncPc = "check_database_exists"
    /\ attempts' = Executed(<<"check_database_exists", "">>)
    /\ held' = released(acquired(held, "connection"), "connection")
    /\ \E fail \in Fails :
          IF fail
          THEN /\ faults' = faults - 1
               /\ sync_log' = Append(sync_log, Event("check_failed", "", "", FALSE))
               /\ IF RunsAgain(<<"check_database_exists", "">>,
                               attempts[<<"check_database_exists", "">>] + 1)
                  THEN UNCHANGED <<syncPc, syncResult>>
                  ELSE /\ syncResult' = "raised"
                       /\ syncPc' = "dispose_initial"
               /\ UNCHANGED db_exists
          ELSE /\ db_exists' = db_present
               /\ syncPc' = after_check(db_present)
               /\ sync_log' = Append(sync_log, Event("check", "", "", FALSE))
               /\ UNCHANGED <<faults, syncResult>>
    /\ UNCHANGED <<files, storeVars, schemaVars, runs, targetVars, mainVars, ingVars,
                   table_idx, existing_columns, conn>>

\* if not db_exists: create_database(initial_engine, db_name)
CreateDatabase ==
    /\ syncPc = "create_database"
    /\ attempts' = Executed(<<"create_database", "">>)
    /\ held' = released(acquired(held, "connection"), "connection")
    /\ \E fail \in Fails :
          IF fail
          THEN /\ faults' = faults - 1
               /\ sync_log' = Append(sync_log, Event("create_database_failed", "", "", FALSE))
               /\ IF RunsAgain(<<"create_database", "">>,
                               attempts[<<"create_database", "">>] + 1)
                  THEN UNCHANGED <<syncPc, syncResult>>
                  ELSE /\ syncResult' = "raised"
                       /\ syncPc' = "dispose_initial"
               /\ UNCHANGED db_present
          ELSE /\ db_present' = TRUE
               /\ sync_log' = Append(sync_log, Event("create_database", "", "", FALSE))
               /\ syncPc' = "dispose_initial"
               /\ UNCHANGED <<faults, syncResult>>
    /\ UNCHANGED <<files, storeVars, live_columns, live_pk, reflects_pk, runs, targetVars,
                   mainVars, ingVars, db_exists, table_idx, existing_columns, conn>>

\* finally: initial_engine.dispose(); a pending exception leaves the flow.
DisposeInitialEngine ==
    /\ syncPc = "dispose_initial"
    /\ syncPc' = IF syncResult = "raised" THEN "idle" ELSE "create_final_engine"
    /\ held' = released(held, "initial_engine")
    /\ UNCHANGED <<files, storeVars, schemaVars, faults, runs, targetVars, attempts,
                   mainVars, ingVars, syncResult, db_exists, table_idx, existing_columns,
                   conn, sync_log>>

\* The for loop over Base.__subclasses__() starts after the final engine.
CreateFinalEngine ==
    /\ syncPc = "create_final_engine"
    /\ CreateEngine("final", "final_engine", "sync_table_schema")
    /\ table_idx' = 0
    /\ UNCHANGED <<files, storeVars, schemaVars, runs, targetVars, mainVars, ingVars,
                   db_exists, existing_columns, conn, sync_log>>

\* After table number table_idx + 1 is synced: next table, or the loop ends.
NextTablePc == IF table_idx + 1 < Len(DeclaredTables) THEN "sync_table_schema"
               ELSE "dispose_final"

\* Variant of SyncTableRaise: the loop goes on with the next table and the
\* failure is raised at its end.
SyncTableRaise_Continue ==
    /\ syncResult' = "raised"
    /\ syncPc' = NextTablePc
    /\ table_idx' = table_idx + 1

\* An exception in sync_table_schema: logged and raised again there; the
\* task has no retries, so sync_database_schema logs and raises it too, and
\* its finally block is the next step.
SyncTableRaise ==
    IF RunsAgain(<<"sync_table_schema", CurrentTable>>,
                 attempts[<<"sync_table_schema", CurrentTable>>])
    THEN /\ syncPc' = "sync_table_schema"
         /\ UNCHANGED <<syncResult, table_idx>>
    ELSE /\ syncResult' = "raised"
         /\ syncPc' = "dispose_final"
         /\ UNCHANGED table_idx

\* sync_table_schema(final_engine, table_class) is called for the table.
SyncTableBegin ==
    /\ syncPc = "sync_table_schema"
    /\ attempts' = Executed(<<"sync_table_schema", CurrentTable>>)
    /\ sync_log' = Append(sync_log, Event("attempt", CurrentTable, "", FALSE))
    /\ syncPc' = "get_existing_columns"
    /\ UNCHANGED <<files, storeVars, schemaVars, faults, runs, targetVars, held, mainVars,
                   ingVars, syncResult, db_exists, table_idx, existing_columns, conn>>

\* existing_columns = get_existing_columns(engine, table_name); the
\* inspector takes a connection for its queries and gives it back.
GetExistingColumns ==
    /\ syncPc = "get_existing_columns"
    /\ attempts' = Executed(<<"get_existing_columns", CurrentTable>>)
    /\ held' = released(acquired(held, "connection"), "connection")
    /\ \E fail \in Fails :
          IF fail
          THEN /\ faults' = faults - 1
               /\ IF RunsAgain(<<"get_existing_columns", CurrentTable>>,
                               attempts[<<"get_existing_columns", CurrentTable>>] + 1)
                  THEN UNCHANGED <<syncPc, syncResult, table_idx, sync_log>>
                  ELSE /\ SyncTableRaise
                       /\ sync_log' = Append(sync_log,
                              Event("table_failed", CurrentTable, "", FALSE))
               /\ UNCHANGED existing_columns
          ELSE /\ existing_columns' = get_existing_columns(CurrentTable)
               /\ syncPc' = IF DOMAIN get_existing_columns(CurrentTable) = {}
                            THEN "create_table" ELSE "sync_table_columns"
               /\ UNCHANGED <<faults, syncResult, table_idx, sync_log>>
    /\ UNCHANGED <<files, storeVars, schemaVars, runs, targetVars, mainVars, ingVars,
                   db_exists, conn>>

\* if not existing_columns: table_class.__table__.create(engine)
CreateTable ==
    /\ syncPc = "create_table"
    /\ held' = released(acquired(held, "connection"), "connection")
    /\ \E fail \in Fails :
          IF fail
          THEN /\ faults' = faults - 1
               /\ SyncTableRaise
               /\ sync_log' = Append(sync_log, Event("table_failed", CurrentTable, "", FALSE))
               /\ UNCHANGED <<live_columns, live_pk>>
          ELSE /\ live_columns' = [live_columns EXCEPT ![CurrentTable] = DeclaredSet(CurrentTable)]
               /\ live_pk' = [live_pk EXCEPT ![CurrentTable] = {"id"}]
               /\ sync_log' = Append(sync_log, Event("create_table", CurrentTable, "", FALSE))
               /\ syncPc' = NextTablePc
               /\ table_idx' = table_idx + 1
               /\ UNCHANGED <<faults, syncResult>>
    /\ UNCHANGED <<files, storeVars, db_present, reflects_pk, runs, targetVars, attempts,
                   mainVars, ingVars, db_exists, existing_columns, conn>>

\* sync_table_columns: with engine.connect() as conn
SyncColumnsConnect ==
    /\ syncPc = "sync_table_columns"
    /\ conn.state # "open"
    /\ conn' = [state |-> "open", table |-> CurrentTable,
                columns |-> live_columns[CurrentTable], pk |-> live_pk[CurrentTable],
                columns0 |-> live_columns[CurrentTable], pk0 |-> live_pk[CurrentTable],
                i |-> 0, dropped |-> {}, ddl |-> <<>>]
    /\ attempts' = Executed(<<"sync_table_columns", CurrentTable>>)
    /\ held' = acquired(held, "connection")
    /\ UNCHANGED <<files, storeVars, schemaVars, faults, runs, targetVars, mainVars, ingVars,
                   syncPc, syncResult, db_exists, table_idx, existing_columns, sync_log>>

\* Variant of conn_close: what the connection did is kept.
conn_close_keeps(committed, working) == working

\* The with block is left by an exception before conn.commit(): the
\* connection is closed and its transaction rolled back.
conn_close(committed, working) == committed

\* The exception leaves the with block and sync_table_columns raises; the
\* task has no retries.
SyncColumnsRaise ==
    /\ conn' = [conn EXCEPT !.state = "aborted"]
    /\ held' = released(held, "connection")
    /\ live_columns' = [live_columns EXCEPT
                           ![conn.table] = conn_close(@, conn.columns)]
    /\ live_pk' = [live_pk EXCEPT ![conn.table] = conn_close(@, conn.pk)]
    /\ sync_log' = Append(sync_log, Event("table_failed", conn.table, "", FALSE))
    /\ IF RunsAgain(<<"sync_table_columns", conn.table>>,
                    attempts[<<"sync_table_columns", conn.table>>])
       THEN UNCHANGED <<syncPc, syncResult, table_idx>>
       ELSE SyncTableRaise

\* Declared columns after position i that the table does not have.
ColumnsToAdd(t, i) ==
    {n \in (i + 1)..Len(DeclaredColumns(t)) :
        DeclaredColumns(t)[n] \notin DOMAIN existing_columns}

\* Live columns that are not declared and not flagged primary key.
ColumnsToDrop(t) ==
    {c \in DOMAIN existing_columns \ DeclaredSet(t) :
        ~is_primary_key(existing_columns[c])}

\* The next iteration of the first loop that issues ALTER TABLE ADD COLUMN.
SyncColumnsAdd ==
    /\ syncPc = "sync_table_columns"
    /\ conn.state = "open"
    /\ ColumnsToAdd(conn.table, conn.i) # {}
    /\ LET n == CHOOSE m \in ColumnsToAdd(conn.table, conn.i) :
                    \A k \in ColumnsToAdd(conn.table, conn.i) : m <= k
           col == DeclaredColumns(conn.table)[n]
       IN \E fail \in Fails :
             IF fail
             THEN /\ faults' = faults - 1
                  /\ SyncColumnsRaise
             ELSE /\ conn' = [conn EXCEPT !.columns = @ \cup {col}, !.i = n,
                                          !.ddl = Append(@, <<"ADD", col>>)]
                  /\ sync_log' = Append(sync_log, Event("add", conn.table, col, FALSE))
                  /\ UNCHANGED <<faults, held, live_columns, live_pk, syncPc, syncResult,
                                 table_idx>>
    /\ UNCHANGED <<files, storeVars, db_present, reflects_pk, runs, targetVars, attempts,
                   mainVars, ingVars, db_exists, existing_columns>>

\* An iteration of the second loop that issues ALTER TABLE DROP COLUMN; the
\* loop runs over a set, in any order.
SyncColumnsDrop ==
    /\ syncPc = "sync_table_columns"
    /\ conn.state = "open"
    /\ ColumnsToAdd(conn.table, conn.i) = {}
    /\ \E col \in ColumnsToDrop(conn.table) \ conn.dropped :
       \E fail \in Fails :
          IF fail
          THEN /\ faults' = faults - 1
               /\ SyncColumnsRaise
          ELSE /\ conn' = [conn EXCEPT !.columns = @ \ {col}, !.pk = @ \ {col},
                                       !.dropped = @ \cup {col},
                                       !.ddl = Append(@, <<"DROP", col>>)]
               /\ sync_log' = Append(sync_log,
                      Event("drop", conn.table, col, col \in conn.pk))
               /\ UNCHANGED <<faults, held, live_columns, live_pk, syncPc, syncResult,
                              table_idx>>
    /\ UNCHANGED <<files, storeVars, db_present, reflects_pk, runs, targetVars, attempts,
                   mainVars, ingVars, db_exists, existing_columns>>

\* conn.commit() after both loops; the with block closes the connection.
SyncColumnsCommit ==
    /\ syncPc = "sync_table_columns"
    /\ conn.state = "open"
    /\ ColumnsToAdd(conn.table, conn.i) = {}
    /\ ColumnsToDrop(conn.table) \subseteq conn.dropped
    /\ \E fail \in Fails :
          IF fail
          THEN /\ faults' = faults - 1
               /\ SyncColumnsRaise
          ELSE /\ live_columns' = [live_columns EXCEPT ![conn.table] = conn.columns]
               /\ live_pk' = [live_pk EXCEPT ![conn.table] = conn.pk]
               /\ conn' = [conn EXCEPT !.state = "committed"]
               /\ held' = released(held, "connection")
               /\ sync_log' = Append(sync_log, Event("synced", conn.table, "", FALSE))
               /\ syncPc' = NextTablePc
               /\ table_idx' = table_idx + 1
               /\ UNCHANGED <<faults, syncResult>>
    /\ UNCHANGED <<files, storeVars, db_present, reflects_pk, runs, targetVars, attempts,
                   mainVars, ingVars, db_exists, existing_columns>>

sync_table_columns ==
    \/ SyncColumnsConnect
    \/ SyncColumnsAdd
    \/ SyncColumnsDrop
    \/ SyncColumnsCommit

sync_table_schema ==
    \/ SyncTableBegin
    \/ GetExistingColumns
    \/ CreateTable
    \/ sync_table_columns

\* finally: final_engine.dispose(); the flow returns or raises.
DisposeFinalEngine ==
    /\ syncPc = "dispose_final"
    /\ syncPc' = "idle"
    /\ syncResult' = IF syncResult = "raised" THEN "raised" ELSE "ok"
    /\ conn' = ClosedConn
    /\ existing_columns' = <<>>
    /\ held' = released(held, "final_engine")
    /\ UNCHANGED <<files, storeVars, schemaVars, faults, runs, targetVars, attempts,
                   mainVars, ingVars, db_exists, table_idx, sync_log>>

\* logging.info(...); the flow's first step is the initial engine.
SyncBegin(database_url, db_name) ==
    /\ sync_args' = <<database_url, db_name>>
    /\ Connect(<<database_url, db_name>>)
    /\ attempts' = NoAttempts
    /\ syncPc' = "create_initial_engine"
    /\ syncResult' = "none"
    /\ sync_log' = <<>>
    /\ db_exists' = FALSE
    /\ table_idx' = 0

\* sync_database_schema called on its own, for the database at hand.
SyncStart ==
    /\ mainPc = "idle"
    /\ syncPc = "idle"
    /\ ingPc = "idle"
    /\ runs < MaxRuns
    /\ runs' = runs + 1
    /\ SyncBegin(here[1], here[2])
    /\ UNCHANGED <<files, reflects_pk, main_args, ingest_args, faults, held, mainVars,
                   ingVars, existing_columns, conn>>

sync_database_schema ==
    \/ CreateInitialEngine
    \/ CheckDatabaseExists
    \/ CreateDatabase
    \/ DisposeInitialEngine
    \/ CreateFinalEngine
    \/ sync_table_schema
    \/ DisposeFinalEngine

(***************************************************************************)
(* main_flow: sync_database_schema(database_url, db_name), then            *)
(* ingest_data(..., database_url=DATABASE_URL).                            *)
(***************************************************************************)
\* Variant of main_calls_ingest: the sync's exception is swallowed.
main_calls_ingest_always(sync_result) == TRUE

\* The call of ingest_data is reached only when sync_database_schema
\* returned: an exception of the sync leaves main_flow.
main_calls_ingest(sync_result) == sync_result # "raised"

\* main_flow(orders_file_path, database_url, db_name) is called and calls
\* sync_database_schema(database_url=database_url, db_name=db_name).
MainStart ==
    /\ mainPc = "idle"
    /\ syncPc = "idle"
    /\ ingPc = "idle"
    /\ runs < MaxRuns
    /\ runs' = runs + 1
    /\ mainPc' = "sync"
    /\ mainResult' = "none"
    /\ \E database_url \in Urls, db_name \in DbNames :
          /\ main_args' = <<database_url, db_name>>
          /\ SyncBegin(database_url, db_name)
    /\ ingResult' = "none"
    /\ ingest_args' = NoArgs
    /\ UNCHANGED <<files, reflects_pk, faults, held, existing_columns, conn,
                   ingPc, df, existing, updates, inserts, session, pre, run_log>>

\* The sync has returned or raised; ingest_data is called with the module's
\* DATABASE_URL and without db_name.
MainAfterSync ==
    /\ mainPc = "sync"
    /\ syncPc = "idle"
    /\ IF main_calls_ingest(syncResult)
       THEN /\ mainPc' = "ingest"
            /\ IngestBegin(EnvUrl, DefaultDbName)
            /\ UNCHANGED mainResult
       ELSE /\ mainPc' = "idle"
            /\ mainResult' = "raised"
            /\ UNCHANGED <<storeVars, db_present, live_columns, live_pk, here, elsewhere,
                           ingest_args, attempts, held, ingPc>>
    /\ UNCHANGED <<files, reflects_pk, main_args, sync_args, faults, runs, syncVars,
                   ingResult, df, existing, updates, inserts, session, pre, run_log>>

MainAfterIngest ==
    /\ mainPc = "ingest"
    /\ ingPc = "idle"
    /\ mainPc' = "idle"
    /\ mainResult' = IF ingResult = "raised" THEN "raised" ELSE "ok"
    /\ UNCHANGED <<files, storeVars, schemaVars, faults, runs, targetVars, attempts, held,
                   syncVars, ingVars>>

main_flow ==
    \/ MainStart
    \/ MainAfterSync
    \/ MainAfterIngest

(***************************************************************************)
(* Inputs.                                                                 *)
(***************************************************************************)
SeqsUpTo(S, n) == UNION {[1..m -> S] : m \in 0..n}

PlainRows(t) ==
    IF t = "orders"
    THEN {[order_id |-> o, product_id |-> p, quantity |-> q] :
            o \in OrderIdVals, p \in ProductIdVals, q \in QuantityVals}
    ELSE {[product_id |-> p, quantity |-> q] : p \in ProductIdVals, q \in QuantityVals}

\* Rows of a file that has an id column.
RowsWithId(t) == {snapshot(n, r) : n \in CallerIds, r \in PlainRows(t)}

\* A file is rectangular: all its rows have the same columns.
FilesOf(t, n) == SeqsUpTo(PlainRows(t), n) \cup SeqsUpTo(RowsWithId(t), n)

\* Rows a table can hold before the first run: ids 1..n, quantity "0".
StoredRows(t) ==
    IF t = "orders"
    THEN {[order_id |-> o, product_id |-> p, quantity |-> "0"] :
            o \in {"a", None}, p \in {"p"}}
    ELSE {[product_id |-> p, quantity |-> "0"] : p \in {"p"}}

StoresOf(t, n) == SeqsUpTo(StoredRows(t), n)

SyncedColumns == [t \in TableNames |-> DeclaredSet(t)]

\* No flow has run: the variables describe the database of the environment.
MainIdle ==
    /\ mainPc = "idle"
    /\ mainResult = "none"
    /\ main_args = NoArgs
    /\ here = <<EnvUrl, DefaultDbName>>
    /\ elsewhere = [x \in Targets |-> NoDatabase]
    /\ attempts = NoAttempts

SyncIdle ==
    /\ syncPc = "idle"
    /\ syncResult = "none"
    /\ sync_args = NoArgs
    /\ db_exists = FALSE
    /\ table_idx = 0
    /\ existing_columns = <<>>
    /\ conn = ClosedConn
    /\ sync_log = <<>>

IngestLocalsEmpty ==
    /\ ingest_args = NoArgs
    /\ held = {}
    /\ df = <<>>
    /\ existing = <<>>
    /\ updates = <<>>
    /\ inserts = <<>>
    /\ session = ClosedSession
    /\ pre = NoPre
    /\ run_log = <<>>

\* A database whose schema is the declared one.
SchemaSynced ==
    /\ db_present = TRUE
    /\ live_columns = SyncedColumns
    /\ live_pk = [t \in TableNames |-> {"id"}]
    /\ reflects_pk \in BOOLEAN

(***************************************************************************)
(* SpecIngest: ingest_data run MaxRuns times over the same two files.      *)
(***************************************************************************)
InitIngest ==
    /\ files \in [orders : FilesOf("orders", MaxBatch),
                  inventories : FilesOf("inventories", MaxMainBatch)]
    /\ \E o \in StoresOf("orders", MaxInitRows), v \in StoresOf("inventories", MaxInitRows) :
          /\ tables = [orders |-> o, inventories |-> v]
          /\ seq = [orders |-> Len(o) + 1, inventories |-> Len(v) + 1]
    /\ SchemaSynced
    /\ reflects_pk = FALSE
    /\ faults = 0
    /\ runs = 0
    /\ MainIdle
    /\ SyncIdle
    /\ ingPc = "idle"
    /\ ingResult = "none"
    /\ IngestLocalsEmpty

NextIngest == IngestStart \/ ingest_data

SpecIngest == InitIngest /\ [][NextIngest]_vars

(***************************************************************************)
(* SpecPartition: the partitioner on any data frame and any mapping.       *)
(***************************************************************************)
MappingKeys(t) ==
    IF t = "orders" THEN {"a", "None"} \X {"p", "nan"} ELSE {"p", "nan"}

\* The snapshot a mapping holds for key k under surrogate id n.
SnapshotFor(t, k, n) ==
    IF t = "orders"
    THEN [id |-> n, order_id |-> k[1], product_id |-> k[2], quantity |-> "0"]
    ELSE [id |-> n, product_id |-> k, quantity |-> "0"]

MappingsOf(t) ==
    UNION {{[k \in K |-> SnapshotFor(t, k, m[k])] : m \in [K -> 1..MaxInitRows]} :
            K \in SUBSET MappingKeys(t)}

FramesOf(t) ==
    {IF t = "orders" THEN read_orders_csv(f) ELSE read_inventories_csv(f) :
        f \in FilesOf(t, MaxBatch)}

InitPartition ==
    /\ \E t \in TableNames :
          /\ ingPc = PreparePc(t)
          /\ df \in FramesOf(t)
          /\ existing \in MappingsOf(t)
    /\ files = [orders |-> <<>>, inventories |-> <<>>]
    /\ tables = [orders |-> <<>>, inventories |-> <<>>]
    /\ seq = [orders |-> 1, inventories |-> 1]
    /\ SchemaSynced
    /\ reflects_pk = FALSE
    /\ faults = 0
    /\ runs = 1
    /\ MainIdle
    /\ SyncIdle
    /\ ingResult = "none"
    /\ ingest_args = here
    /\ held = {"engine"}
    /\ updates = <<>>
    /\ inserts = <<>>
    /\ session = ClosedSession
    /\ pre = NoPre
    /\ run_log = <<>>

NextPartition == PrepareForUpsert("orders") \/ PrepareForUpsert("inventories")

SpecPartition == InitPartition /\ [][NextPartition]_vars

(***************************************************************************)
(* SpecApply: the applier on any update list and insert list.              *)
(***************************************************************************)
MaxApplyRows == 2

\* Payloads: a normalized row, with or without its quantity.
ApplyPayloads(t) ==
    LET full == {to_dict_normalized(r) : r \in {x \in PlainRows(t) : x["product_id"] = "p"}}
    IN full \cup {Without(r, "quantity") : r \in full}

ApplyRecords(t) ==
    ApplyPayloads(t) \cup {snapshot(n, r) : n \in CallerIds, r \in ApplyPayloads(t)}

\* A table of n rows, ids 1..n.
ApplyStores(t) ==
    {[n \in 1..m |-> IF t = "orders"
                     THEN [order_id |-> "a", product_id |-> "p", quantity |-> "0"]
                     ELSE [product_id |-> "p", quantity |-> "0"]] : m \in 0..MaxApplyRows}

InitApply ==
    /\ \E t \in TableNames, nu \in 0..MaxBatch :
       \E ni \in 0..(MaxBatch - nu) :
          /\ ingPc = UpsertPc(t)
          /\ updates \in [1..nu -> ApplyRecords(t)]
          /\ inserts \in [1..ni -> ApplyRecords(t)]
          /\ \E rows \in ApplyStores(t) :
                /\ tables = [u \in TableNames |-> IF u = t THEN rows ELSE <<>>]
                /\ seq = [u \in TableNames |-> IF u = t THEN Len(rows) + 1 ELSE 1]
    /\ files = [orders |-> <<>>, inventories |-> <<>>]
    /\ SchemaSynced
    /\ reflects_pk = FALSE
    /\ faults \in 0..MaxFaults
    /\ runs = 1
    /\ MainIdle
    /\ SyncIdle
    /\ ingResult = "none"
    /\ ingest_args = here
    /\ held = {"engine"}
    /\ df = <<>>
    /\ existing = <<>>
    /\ session = ClosedSession
    /\ pre = NoPre
    /\ run_log = <<>>

NextApply == upsert_orders \/ upsert_inventories \/ UpsertFault

SpecApply == InitApply /\ [][NextApply]_vars

(***************************************************************************)
(* Properties of the partitioner and the applier.                          *)
(***************************************************************************)
key_of(t, data) == IF t = "orders" THEN order_key(data) ELSE inventory_key(data)

\* The partitioner has returned its lists for table t and the applier has
\* not opened its session yet.
Partitioned(t) ==
    /\ ingPc = UpsertPc(t)
    /\ ~(session.state = "open" /\ session.table = t)

\* The applier for table t has just committed.
Committed(t) ==
    /\ session.state = "committed"
    /\ session.table = t
    /\ ingPc = AfterUpsertPc(t)

\* The applier for table t has raised.
RolledBack(t) ==
    /\ session.state = "rolled_back"
    /\ session.table = t

\* Position of input record n among the records classified like it.
RankIn(frame, mapping, t, n) ==
    LET matched(m) == key_of(t, to_dict_normalized(frame[m])) \in DOMAIN mapping
    IN Cardinality({m \in 1..n : matched(m) = matched(n)})

\* C1: the partitioner puts every record whose natural key is a key of the
\* mapping into the update list with 'id' equal to the mapping's id for that
\* key, and every other record into the insert list with no 'id' field,
\* whatever fields the input records carry.
C1_PartitionByMapping ==
    \A t \in TableNames :
        Partitioned(t) =>
            /\ Len(updates) + Len(inserts) = Len(df)
            /\ \A n \in 1..Len(df) :
                  LET data == to_dict_normalized(df[n])
                      k == key_of(t, data)
                      r == RankIn(df, existing, t, n)
                  IN IF k \in DOMAIN existing
                     THEN /\ r <= Len(updates)
                          /\ updates[r] = snapshot(existing[k]["id"], Without(data, "id"))
                     ELSE /\ r <= Len(inserts)
                          /\ inserts[r] = Without(data, "id")

\* C2: the applier is all-or-nothing.  While the batch is being applied no
\* change of it is visible; when a step fails the table equals the table
\* before the call and the failure reaches the caller; when no step fails
\* every update and insert of the batch has run and all become visible at
\* the one commit.
C2_AllOrNothing ==
    \A t \in TableNames :
        /\ (session.state = "open" /\ session.table = t) => tables[t] = pre.rows
        /\ RolledBack(t) =>
              /\ tables[t] = pre.rows
              /\ ingResult = "raised"
              /\ ingPc = "dispose"
        /\ Committed(t) =>
              /\ session.i = Len(pre.updates)
              /\ session.j = Len(pre.inserts)
              /\ tables[t] = session.rows
              /\ ingResult # "raised"

\* C2's case: the applier raised after an earlier step of the batch had
\* changed the session's rows.
C2_Witness ==
    \E t \in TableNames :
        /\ RolledBack(t)
        /\ session.dirty
        /\ session.i + session.j > 0

\* Last update record of the batch that targets row id and carries column c
\* (0: none).
LastCarrying(id, c) ==
    LET S == {n \in 1..Len(pre.updates) :
                pre.updates[n]["id"] = id /\ c \in DOMAIN pre.updates[n]}
    IN IF S = {} THEN 0 ELSE CHOOSE n \in S : \A m \in S : m <= n

\* C4 (as amended): after a successful apply, every row that existed before
\* has, for each column carried by some update record that targets it, the
\* value of the last such record in list order, and for every other column
\* its value from before the apply; rows no update record targets are
\* unchanged.
C4_LastUpdateWins ==
    \A t \in TableNames :
        Committed(t) =>
            \A id \in DOMAIN pre.rows :
                \A c \in DataColumns(t) :
                    tables[t][id][c] =
                        IF LastCarrying(id, c) = 0 THEN pre.rows[id][c]
                        ELSE pre.updates[LastCarrying(id, c)][c]

\* C4 (original): after a successful apply, the row targeted by each update
\* record has the payload's value for every field of that record's payload
\* and its earlier value for every other field; untargeted rows are unchanged.
C4_EveryPayloadRead ==
    \A t \in TableNames :
        Committed(t) =>
            /\ \A n \in 1..Len(pre.updates) :
                  LET u == pre.updates[n]
                  IN \A c \in DataColumns(t) :
                        tables[t][u["id"]][c] =
                            IF c \in DOMAIN u THEN u[c] ELSE pre.rows[u["id"]][c]
            /\ \A id \in DOMAIN pre.rows :
                  (\A n \in 1..Len(pre.updates) : pre.updates[n]["id"] # id)
                      => tables[t][id] = pre.rows[id]

\* C4's case: a committed batch changed a row through an update record
\* whose payload has no quantity, while another row was not targeted.
C4_Witness ==
    \E t \in TableNames :
        /\ Committed(t)
        /\ \E n \in 1..Len(pre.updates) :
              /\ "quantity" \notin DOMAIN pre.updates[n]
              /\ tables[t][pre.updates[n]["id"]] # pre.rows[pre.updates[n]["id"]]
        /\ \E id \in DOMAIN pre.rows :
              \A n \in 1..Len(pre.updates) : pre.updates[n]["id"] # id

\* C5: every row the applier creates from an insert record has an id that
\* the store generated, different from the ids of the rows that existed
\* before and of the other rows of the batch, never the caller's; its other
\* fields are the inserted payload.
C5_StoreGeneratedId ==
    \A t \in TableNames :
        Committed(t) =>
            \A k \in 1..Len(session.created) :
                LET c == session.created[k]
                IN /\ c.generated
                   /\ c.id \notin DOMAIN pre.rows
                   /\ \A k2 \in 1..Len(session.created) :
                         k2 # k => session.created[k2].id # c.id
                   /\ tables[t][c.id] = new_row(t, Without(pre.inserts[c.n], "id"))

\* C3: ingesting the same files twice leaves the rows that ingesting them
\* once leaves, and the second run partitions every record as an update.
C3_SecondRunIdempotent ==
    /\ (Len(run_log) >= 2 /\ run_log[1].result = "ok") =>
          /\ run_log[2].result = "ok"
          /\ run_log[2].tables = run_log[1].tables
    /\ (Len(run_log) = 1 /\ run_log[1].result = "ok") =>
          \A t \in TableNames : Partitioned(t) => inserts = <<>>

\* C6: for a record whose natural key the lookup found, the run adds no row,
\* the matched row keeps its surrogate id and ends with the record's
\* non-key values (those of the last record of the file with that key), and
\* no row that existed before the run loses its id.
C6_MatchedRowOverwritten ==
    \A t \in TableNames :
        Committed(t) =>
            LET data(n) == to_dict_normalized(df[n])
                matched(n) == key_of(t, data(n)) \in DOMAIN existing
                last(n) == \A m \in (n + 1)..Len(df) :
                              key_of(t, data(m)) # key_of(t, data(n))
            IN /\ Cardinality(DOMAIN tables[t] \ DOMAIN pre.rows)
                    = Cardinality({n \in 1..Len(df) : ~matched(n)})
               /\ DOMAIN pre.rows \subseteq DOMAIN tables[t]
               /\ \A n \in 1..Len(df) :
                     matched(n) =>
                        LET id == existing[key_of(t, data(n))]["id"]
                        IN /\ id \in DOMAIN tables[t]
                           /\ last(n) =>
                                 tables[t][id]["quantity"] = data(n)["quantity"]

(***************************************************************************)
(* SpecSync: sync_database_schema run on its own over live schemas that    *)
(* differ from the declared one.                                           *)
(***************************************************************************)
\* Live column sets of table t: no table, or the declared columns without
\* some of `missing` and with some of `extra`.
LiveVariants(t, missing, extra) ==
    {{}} \cup {(DeclaredSet(t) \ m) \cup e : m \in SUBSET missing, e \in SUBSET extra}

\* Primary-key columns among live columns: id and the undeclared legacy key.
PkOf(columns) == columns \cap {"id", "legacy_pk"}

EmptyStore ==
    /\ files = [orders |-> <<>>, inventories |-> <<>>]
    /\ tables = [orders |-> <<>>, inventories |-> <<>>]
    /\ seq = [orders |-> 1, inventories |-> 1]

InitSync ==
    /\ EmptyStore
    /\ db_present \in BOOLEAN
    /\ live_columns \in [orders : LiveVariants("orders", {"quantity"}, {"notes", "legacy_pk"}),
                         inventories : LiveVariants("inventories", {"quantity"},
                                                    {"notes", "legacy_pk"})]
    /\ ~db_present => \A t \in TableNames : live_columns[t] = {}
    /\ live_pk = [t \in TableNames |-> PkOf(live_columns[t])]
    /\ reflects_pk \in BOOLEAN
    /\ faults \in 0..MaxFaults
    /\ runs = 0
    /\ MainIdle
    /\ SyncIdle
    /\ ingPc = "idle"
    /\ ingResult = "none"
    /\ IngestLocalsEmpty

NextSync == SyncStart \/ sync_database_schema

SpecSync == InitSync /\ [][NextSync]_vars

(***************************************************************************)
(* Spec: main_flow run MaxRuns times.                                      *)
(***************************************************************************)
\* Files of main_flow's runs: every record names product "p".
MainFilesOf(t) ==
    {f \in FilesOf(t, MaxMainBatch) : \A n \in 1..Len(f) : f[n]["product_id"] = "p"}

Init ==
    /\ files \in [orders : MainFilesOf("orders"),
                  inventories : MainFilesOf("inventories") \cap
                                SeqsUpTo(PlainRows("inventories"), MaxMainBatch)]
    /\ tables = [orders |-> <<>>, inventories |-> <<>>]
    /\ seq = [orders |-> 1, inventories |-> 1]
    /\ db_present \in BOOLEAN
    /\ live_columns \in [orders : LiveVariants("orders", {"quantity"}, {"notes"}),
                         inventories : LiveVariants("inventories", {}, {})]
    /\ ~db_present => \A t \in TableNames : live_columns[t] = {}
    /\ live_pk = [t \in TableNames |-> PkOf(live_columns[t])]
    /\ reflects_pk = FALSE
    /\ faults \in 0..MaxFaults
    /\ runs = 0
    /\ MainIdle
    /\ SyncIdle
    /\ ingPc = "idle"
    /\ ingResult = "none"
    /\ IngestLocalsEmpty

Next ==
    \/ main_flow
    \/ sync_database_schema
    \/ ingest_data
    \/ UpsertFault
    \/ LookupFault

Spec == Init /\ [][Next]_vars

(***************************************************************************)
(* Properties of the schema sync and of main_flow.                         *)
(***************************************************************************)
LogOps(ops) == {n \in 1..Len(sync_log) : sync_log[n].op \in ops}

\* Number of times statement st was issued on the connection.
Issued(st) == Cardinality({n \in 1..Len(conn.ddl) : conn.ddl[n] = st})

\* C7: schema sync issues no DROP COLUMN for a column that is a primary key
\* of the live table, also when the declared definition lacks the column.
C7_NoPrimaryKeyDropped ==
    \A n \in LogOps({"drop"}) : ~sync_log[n].pk

\* C8: for a live table, sync_table_columns issues exactly one ADD COLUMN per
\* declared column the table lacks and exactly one DROP COLUMN per live
\* column that is neither declared nor a primary key, and nothing else;
\* after its commit the live columns are the declared columns plus the live
\* primary-key columns that are not declared.
C8_ExactColumnDiff ==
    conn.state = "committed" =>
        LET t == conn.table
            to_add == DeclaredSet(t) \ conn.columns0
            to_drop == (conn.columns0 \ DeclaredSet(t)) \ conn.pk0
        IN /\ \A c \in to_add : Issued(<<"ADD", c>>) = 1
           /\ \A c \in to_drop : Issued(<<"DROP", c>>) = 1
           /\ Len(conn.ddl) = Cardinality(to_add) + Cardinality(to_drop)
           /\ live_columns[t] = DeclaredSet(t) \cup (conn.pk0 \ DeclaredSet(t))

\* The sync run has ended.
SyncEnded == syncPc = "idle" /\ syncResult # "none"

\* C9 (original): in every run that reaches the per-table phase every
\* declared table is attempted, whether or not an earlier table failed, and
\* the run ends as failed if a table failed.
C9_EveryTableAttempted ==
    (SyncEnded /\ LogOps({"attempt"}) # {}) =>
        /\ \A t \in Range(DeclaredTables) :
              \E n \in LogOps({"attempt"}) : sync_log[n].table = t
        /\ LogOps({"table_failed"}) # {} => syncResult = "raised"

\* C9 (as amended): the failure of one table ends the per-table phase: it is
\* the last thing the run does to any table, no later table is attempted,
\* and the run ends as failed; a run that ends without failure has attempted
\* every declared table, in declaration order.
C9_FirstFailureEndsSync ==
    /\ \A n \in LogOps({"table_failed"}) :
          /\ n = Len(sync_log)
          /\ syncPc \in {"dispose_final", "idle"}
          /\ syncResult = "raised"
    /\ (SyncEnded /\ syncResult = "ok") =>
          /\ Cardinality(LogOps({"attempt"})) = Len(DeclaredTables)
          /\ \A n \in LogOps({"attempt"}) :
                sync_log[n].table =
                    DeclaredTables[Cardinality({m \in LogOps({"attempt"}) : m <= n})]

\* C9's case: the first declared table failed and the run ended as failed
\* without attempting the second.
C9_Witness ==
    /\ SyncEnded
    /\ syncResult = "raised"
    /\ \E n \in LogOps({"table_failed"}) : sync_log[n].table = DeclaredTables[1]
    /\ \A n \in LogOps({"attempt"}) : sync_log[n].table # DeclaredTables[2]

\* C10: in main_flow no step of ingest_data runs before sync_database_schema
\* has returned, and none runs at all in a run whose sync raised: that run
\* ends as failed.
C10_SyncBeforeIngest ==
    /\ ingPc # "idle" => (mainPc = "ingest" /\ syncPc = "idle" /\ syncResult = "ok")
    /\ syncPc # "idle" => (ingPc = "idle" /\ ingResult = "none")
    /\ syncResult = "raised" => (ingPc = "idle" /\ ingResult = "none")
    /\ (mainPc = "idle" /\ syncResult = "raised") => mainResult = "raised"

\* C10's case: a run of main_flow whose sync raised has ended, and no step
\* of the ingestion ran in it.
C10_Witness ==
    /\ runs >= 1
    /\ mainPc = "idle"
    /\ mainResult = "raised"
    /\ syncResult = "raised"
    /\ ingResult = "none"

(***************************************************************************)
(* SpecRetry: one run of main_flow in which the environment may fail up to *)
(* MaxRetryFaults steps, so that retried tasks use up their retries.       *)
(***************************************************************************)
MaxRetryFaults == 4

\* Either no database, or a database whose orders table holds one row, lacks
\* a declared column and has an undeclared one, and no inventories table.
InitRetry ==
    /\ files = [orders |-> <<[order_id |-> "a", product_id |-> "p", quantity |-> "1"]>>,
                inventories |-> <<[product_id |-> "p", quantity |-> "1"]>>]
    /\ db_present \in BOOLEAN
    /\ IF db_present
       THEN /\ live_columns = [orders |-> (DeclaredSet("orders") \ {"currency"}) \cup {"notes"},
                               inventories |-> {}]
            /\ tables = [orders |-> <<[order_id |-> "a", product_id |-> "p",
                                       quantity |-> "0"]>>,
                         inventories |-> <<>>]
            /\ seq = [orders |-> 2, inventories |-> 1]
       ELSE /\ live_columns = [t \in TableNames |-> {}]
            /\ tables = [t \in TableNames |-> <<>>]
            /\ seq = [t \in TableNames |-> 1]
    /\ live_pk = [t \in TableNames |-> PkOf(live_columns[t])]
    /\ reflects_pk = FALSE
    /\ faults \in 0..MaxRetryFaults
    /\ runs = MaxRuns - 1
    /\ MainIdle
    /\ SyncIdle
    /\ ingPc = "idle"
    /\ ingResult = "none"
    /\ IngestLocalsEmpty

SpecRetry == InitRetry /\ [][Next]_vars

(***************************************************************************)
(* Properties of tasks and resources.                                      *)
(***************************************************************************)
\* main_flow's sync has returned and ingest_data is not yet called.
SyncReturned == mainPc = "sync" /\ syncPc = "idle" /\ syncResult = "ok"

C12_NothingHeldAtExit ==
    /\ "session" \in held =>
          (session.state = "open" /\ ingPc \in {"upsert_orders", "upsert_inventories"})
    /\ "connection" \in held => (conn.state = "open" /\ syncPc = "sync_table_columns")
    /\ "engine" \in held <=> ingPc # "idle"
    /\ "initial_engine" \in held <=>
          syncPc \in {"check_database_exists", "create_database", "dispose_initial"}
    /\ "final_engine" \in held <=>
          syncPc \in {"sync_table_schema", "get_existing_columns", "create_table",
                      "sync_table_columns", "dispose_final"}
    /\ session.state = "open" => "session" \in held
    /\ conn.state = "open" => "connection" \in held
    /\ (mainPc = "idle" /\ syncPc = "idle" /\ ingPc = "idle") => held = {}

\* C12's case: main_flow has ended by the exception of the orders apply,
\* after a sync that migrated a table, and holds nothing.
C12_Witness ==
    /\ mainPc = "idle"
    /\ mainResult = "raised"
    /\ syncResult = "ok"
    /\ \E n \in 1..Len(sync_log) : sync_log[n].op = "synced"
    /\ ingResult = "raised"
    /\ attempts[<<"upsert_orders", "orders">>] = 1
    /\ attempts[<<"read_inventories_csv", "inventories">>] = 0
    /\ held = {}

\* Committed rows of table t of the database at the (url, name) pair x.
RowsAt(x, t) == IF x = here THEN tables[t] ELSE elsewhere[x].rows[t]

\* C13: no step of a sync or ingestion run, failed or not, removes a
\* committed row: every surrogate id present in a table of a database before
\* the step is present after it.
C13_NoRowDeleted ==
    [][\A x \in Targets : \A t \in TableNames :
          DOMAIN RowsAt(x, t) \subseteq DOMAIN RowsAt(x, t)']_vars

\* C13's case: a first run committed an orders row, and a second run, whose
\* sync and ingestion both ran, failed in its ingestion; the row is there.
C13_Witness ==
    /\ Len(run_log) = 2
    /\ run_log[1].result = "ok"
    /\ run_log[1].tables["orders"] # <<>>
    /\ run_log[2].result = "raised"
    /\ mainPc = "idle"
    /\ DOMAIN run_log[1].tables["orders"] \subseteq DOMAIN RowsAt(ingest_args, "orders")

(***************************************************************************)
(* Properties of the order of the sync's steps.                            *)
(***************************************************************************)
TableOps == {"attempt", "create_table", "add", "drop", "synced", "table_failed"}

FailureOps == {"check_failed", "create_database_failed", "table_failed"}

\* Events of the sync log about table t.
TableEvents(t, ops) == {n \in LogOps(ops) : sync_log[n].table = t}

\* C14: create_database is executed exactly when check_database_exists
\* returned false; nothing is done to a table before the check, and the
\* create when there was one, has succeeded; a table without live columns is
\* created and a table with live columns is migrated, never both; the run
\* ends well only when every declared table was created or migrated and no
\* create or table step failed; and a run that has ended took no step after
\* its last table or after its failure.
C14_SyncStateMachine ==
    /\ LogOps({"create_database", "create_database_failed"}) # {} =>
          (LogOps({"check"}) # {} /\ ~db_exists)
    /\ (LogOps({"check"}) # {} /\ ~db_exists /\ syncPc # "create_database") =>
          LogOps({"create_database", "create_database_failed"}) # {}
    /\ \A n \in LogOps({"create_database", "create_database_failed"}) :
          \E m \in LogOps({"check"}) : m < n
    /\ \A n \in LogOps(TableOps) :
          /\ \E m \in LogOps({"check"}) : m < n
          /\ ~db_exists => \E m \in LogOps({"create_database"}) : m < n
          /\ LogOps({"create_database_failed"}) = {}
          /\ db_present
    /\ syncPc = "create_table" => live_columns[CurrentTable] = {}
    /\ syncPc = "sync_table_columns" => live_columns[CurrentTable] # {}
    /\ \A t \in TableNames :
          \/ TableEvents(t, {"create_table"}) = {}
          \/ TableEvents(t, {"add", "drop", "synced"}) = {}
    /\ (SyncEnded /\ syncResult = "ok") =>
          /\ \A t \in TableNames : TableEvents(t, {"create_table", "synced"}) # {}
          /\ LogOps({"create_database_failed", "table_failed"}) = {}
          /\ sync_log[Len(sync_log)].op \in {"create_table", "synced"}
          /\ sync_log[Len(sync_log)].table = DeclaredTables[Len(DeclaredTables)]
    /\ (SyncEnded /\ syncResult = "raised") =>
          \/ /\ sync_log # <<>>
             /\ sync_log[Len(sync_log)].op \in FailureOps
          \/ \E which \in {"initial", "final"} :
                attempts[<<"create_engine_task", which>>] = 4

\* C14's case: the check found no database, create_database raised, and
\* the run ended as failed without touching a table.
C14_Witness ==
    /\ SyncEnded
    /\ syncResult = "raised"
    /\ ~db_exists
    /\ LogOps({"check"}) # {}
    /\ LogOps({"create_database_failed"}) # {}
    /\ LogOps(TableOps) = {}

(***************************************************************************)
(* More properties of the applier and the partitioner.                     *)
(***************************************************************************)
\* Update records of the batch whose surrogate id no row of the table has.
StaleUpdates ==
    {n \in 1..Len(pre.updates) :
        "id" \in DOMAIN pre.updates[n] /\ pre.updates[n]["id"] \notin DOMAIN pre.rows}

\* C15: an update record whose surrogate id matches no row makes the
\* applier raise.  The loop never goes past such a record and makes no row
\* for it; the call ends rolled back, with the table as it was before, the
\* exception at the flow, and the applier executed once.
C15_StaleUpdateFails ==
    /\ session.state = "open" =>
          /\ \A n \in StaleUpdates : session.i < n
          /\ \A n \in StaleUpdates : pre.updates[n]["id"] \notin DOMAIN session.rows
    /\ (StaleUpdates # {} /\ session.state \notin {"open", "closed"}) =>
          /\ session.state = "rolled_back"
          /\ tables[pre.table] = pre.rows
          /\ ingResult = "raised"
          /\ ingPc = "dispose"
          /\ attempts[<<UpsertPc(pre.table), pre.table>>] = 1

\* C15's case: with no failure of the store, the applier changed a row
\* through a first update record, met a second one whose id matches no row,
\* and raised.
C15_Witness ==
    /\ session.state = "rolled_back"
    /\ faults = MaxFaults
    /\ session.i >= 1
    /\ session.dirty
    /\ session.i + 1 \in StaleUpdates

\* C16: the occurrences of one natural key in a batch are classified alike,
\* against the mapping of the lookup alone: when the key is in the mapping
\* every occurrence is in the update list, all with the same surrogate id,
\* and when it is not every occurrence is in the insert list.
C16_DuplicatesBySnapshot ==
    \A t \in TableNames :
        Partitioned(t) =>
            \A n \in 1..Len(df) : \A m \in 1..Len(df) :
                LET k == key_of(t, to_dict_normalized(df[n]))
                    rn == RankIn(df, existing, t, n)
                    rm == RankIn(df, existing, t, m)
                IN (n < m /\ key_of(t, to_dict_normalized(df[m])) = k) =>
                      IF k \in DOMAIN existing
                      THEN /\ rm <= Len(updates)
                           /\ Without(updates[rn], "id") = Without(to_dict_normalized(df[n]), "id")
                           /\ Without(updates[rm], "id") = Without(to_dict_normalized(df[m]), "id")
                           /\ updates[rn]["id"] = updates[rm]["id"]
                      ELSE /\ rm <= Len(inserts)
                           /\ inserts[rn] = to_dict_normalized(df[n])
                           /\ inserts[rm] = to_dict_normalized(df[m])

\* C17: the ADD and DROP statements of one call of sync_table_columns are
\* one unit of work.  Until the commit the table's live columns are those
\* from before the call; when a statement or the commit fails, that is the
\* last thing done to the table, no further statement is issued, the live
\* columns stay as they were before the call, and the exception reaches
\* the flow, which ends as failed.
C17_ColumnChangesAtomic ==
    /\ conn.state = "open" =>
          /\ live_columns[conn.table] = conn.columns0
          /\ live_pk[conn.table] = conn.pk0
    /\ conn.state = "aborted" =>
          /\ live_columns[conn.table] = conn.columns0
          /\ live_pk[conn.table] = conn.pk0
          /\ syncResult = "raised"
          /\ syncPc = "dispose_final"
          /\ sync_log[Len(sync_log)] = Event("table_failed", conn.table, "", FALSE)
          /\ Cardinality(TableEvents(conn.table, {"add", "drop"})) = Len(conn.ddl)
          /\ TableEvents(conn.table, {"synced"}) = {}

\* C17's case: sync_table_columns had issued a statement for the table
\* when a later statement, or the commit, failed.
C17_Witness ==
    /\ conn.state = "aborted"
    /\ Len(conn.ddl) >= 1
    /\ conn.columns # conn.columns0

\* The partitioner's lists are the input records, each once, in input order:
\* the n-th record is the r-th of its list, r its rank among the records
\* classified like it; an update record is the record with 'id' set.
PurePartition(t) ==
    /\ Len(updates) + Len(inserts) = Len(df)
    /\ \A n \in 1..Len(df) :
          LET data == to_dict_normalized(df[n])
              r == RankIn(df, existing, t, n)
          IN IF key_of(t, data) \in DOMAIN existing
             THEN /\ r <= Len(updates)
                  /\ Without(updates[r], "id") = Without(data, "id")
             ELSE /\ r <= Len(inserts)
                  /\ inserts[r] = data

\* C18: the partitioner partitions its input and changes nothing else.  Its
\* update list and its insert list are subsequences of the batch in input
\* order, every record is in exactly one of them exactly once, and the call
\* leaves the data frame and the existing-record mapping as they were.
C18_PurePartition ==
    /\ [](\A t \in TableNames : Partitioned(t) => PurePartition(t))
    /\ [][\A t \in TableNames :
             ingPc = PreparePc(t) => (df' = df /\ existing' = existing)]_vars

\* C18's case: a batch of two records of which the partitioner put one in
\* each list.
C18_Witness ==
    \E t \in TableNames :
        /\ Partitioned(t)
        /\ Len(df) = 2
        /\ Len(updates) = 1
        /\ Len(inserts) = 1

(***************************************************************************)
(* Properties of runs over one store.                                      *)
(***************************************************************************)
\* The file of table t holds at most one record per natural key.
FileUnique(t) ==
    LET frame == IF t = "orders" THEN read_orders_csv(files[t])
                 ELSE read_inventories_csv(files[t])
    IN \A n \in 1..Len(frame) : \A m \in 1..Len(frame) :
          n # m => key_of(t, to_dict_normalized(frame[n])) #
                   key_of(t, to_dict_normalized(frame[m]))

\* The table holds at most one row per natural key.
StoreUnique(rows, t) ==
    \A i \in DOMAIN rows : \A j \in DOMAIN rows :
        i # j => row_key(t, rows[i]) # row_key(t, rows[j])

\* C19: when every file holds at most one record per natural key, no step
\* of an ingestion run takes a table that holds at most one row per natural
\* key to one that holds two rows of one natural key.
C19_NaturalKeysStayUnique ==
    [][\A t \in TableNames :
          (FileUnique(t) /\ StoreUnique(tables[t], t)) => StoreUnique(tables'[t], t)]_vars

(***************************************************************************)
(* The databases of one run of main_flow.                                  *)
(***************************************************************************)
\* C20: in a run of main_flow the (url, database name) that ingest_data
\* connects to equals the (url, database name) that sync_database_schema
\* checked, created and migrated, whatever database_url and db_name the
\* run was given.
C20_SameDatabase ==
    (mainPc = "ingest" /\ ingest_args # NoArgs) => ingest_args = sync_args
====
